---- MODULE Spec2Model ----
(***************************************************************************)
(* A model of the package "vector" (src/vector.go, and the earlier copy of *)
(* the same package in src/unnamed/part_000): a three-component float64    *)
(* value type with pure functions and pointer-receiver mutating methods.   *)
(*                                                                         *)
(* float64 is modelled as decimal fixed point: the integer n stands for    *)
(* the number n / Scale, every multiplication, division and square root    *)
(* rounds to the nearest representable value (as IEEE-754 does, at a       *)
(* coarser precision), and three integers outside the finite range stand   *)
(* for +Inf, -Inf and NaN with the IEEE-754 rules for them.  The model has *)
(* one zero: the sign of a floating-point zero is not modelled.            *)
(***************************************************************************)
EXTENDS Integers, Sequences, FiniteSets, TLC

(***************************************************************************)
(* float64                                                                 *)
(***************************************************************************)
Scale == 1000

PInf == 1000000000

NInf == -PInf

NaN == 1000000001

IsNaN(x) == x = NaN

IsInf(x) == x = PInf \/ x = NInf

IsFinite(x) == NInf < x /\ x < PInf

Sgn(x) == IF x < 0 THEN -1 ELSE IF x > 0 THEN 1 ELSE 0

AbsInt(n) == IF n < 0 THEN -n ELSE n

\* n / d rounded to the nearest integer, halves away from zero (d # 0)
RoundDiv(n, d) ==
    LET an == AbsInt(n)
        ad == AbsInt(d)
        q  == (2 * an + ad) \div (2 * ad)
    IN  Sgn(n) * Sgn(d) * q

SignedInf(s) == IF s < 0 THEN NInf ELSE PInf

FNeg(x) == IF IsNaN(x) THEN NaN ELSE -x

\* math.Abs
FAbs(x) == IF IsNaN(x) THEN NaN ELSE AbsInt(x)

\* a + b
FAdd(a, b) ==
    IF IsNaN(a) \/ IsNaN(b) THEN NaN
    ELSE IF IsInf(a) THEN (IF IsInf(b) /\ a # b THEN NaN ELSE a)
    ELSE IF IsInf(b) THEN b
    ELSE a + b

\* a - b
FSub(a, b) == FAdd(a, FNeg(b))

\* a * b
FMul(a, b) ==
    IF IsNaN(a) \/ IsNaN(b) THEN NaN
    ELSE IF IsInf(a) \/ IsInf(b)
         THEN (IF a = 0 \/ b = 0 THEN NaN ELSE SignedInf(Sgn(a) * Sgn(b)))
    ELSE RoundDiv(a * b, Scale)

\* a / b
FDiv(a, b) ==
    IF IsNaN(a) \/ IsNaN(b) THEN NaN
    ELSE IF IsInf(a) THEN (IF IsInf(b) THEN NaN
                           ELSE SignedInf(Sgn(a) * (IF b < 0 THEN -1 ELSE 1)))
    ELSE IF IsInf(b) THEN 0
    ELSE IF b = 0 THEN (IF a = 0 THEN NaN ELSE SignedInf(Sgn(a)))
    ELSE RoundDiv(a * Scale, b)

\* the comparisons: every comparison with NaN is false
FLe(a, b) == ~IsNaN(a) /\ ~IsNaN(b) /\ a <= b

FLt(a, b) == ~IsNaN(a) /\ ~IsNaN(b) /\ a < b

FGe(a, b) == FLe(b, a)

FGt(a, b) == FLt(b, a)

\* a == b and a != b of Go: NaN is not equal to itself
FEq(a, b) == ~IsNaN(a) /\ ~IsNaN(b) /\ a = b

FNe(a, b) == ~FEq(a, b)

RECURSIVE ISqrtIn(_, _, _)
\* the largest r in lo..hi with r * r <= n
ISqrtIn(n, lo, hi) ==
    IF lo >= hi THEN lo
    ELSE LET mid == (lo + hi + 1) \div 2
         IN  IF mid * mid <= n THEN ISqrtIn(n, mid, hi)
                               ELSE ISqrtIn(n, lo, mid - 1)

\* math.Sqrt, correctly rounded
FSqrt(x) ==
    IF IsNaN(x) \/ x < 0 THEN NaN
    ELSE IF x = PInf THEN PInf
    ELSE LET n == x * Scale
             r == ISqrtIn(n, 0, 46000)
         IN  IF n - r * r > r THEN r + 1 ELSE r

\* math.Mod: the result has the sign of x
FMod(x, y) ==
    IF IsNaN(x) \/ IsNaN(y) \/ IsInf(x) \/ y = 0 THEN NaN
    ELSE IF IsInf(y) THEN x
    ELSE Sgn(x) * (AbsInt(x) % AbsInt(y))

\* math.Pi
Pi == 3142

(***************************************************************************)
(* math.Sin, math.Cos and math.Acos.  The library reduces its argument     *)
(* with a pi far more precise than float64 and returns the nearest float64 *)
(* to the true value; the model does the same one decimal digit finer than *)
(* Scale (Fine units per Scale unit) and rounds the series' sum.           *)
(***************************************************************************)
Fine == 10

FineScale == Scale * Fine

PiFine == 31416

RECURSIVE Series(_, _, _, _, _)
\* acc + term - term*t2/(k(k+1)) + ... : the alternating Taylor series of
\* sine (first term t, k = 2) and of cosine (first term 1, k = 1)
Series(term, t2, k, last, acc) ==
    IF k > last THEN acc
    ELSE LET next == -RoundDiv(RoundDiv(term * t2, FineScale), k * (k + 1))
         IN  Series(next, t2, k + 2, last, acc + next)

\* sine and cosine of t, 0 <= t <= pi/2, in Fine units
SinFine(t) == Series(t, RoundDiv(t * t, FineScale), 2, 12, t)

CosFine(t) == Series(FineScale, RoundDiv(t * t, FineScale), 1, 13, FineScale)

\* the argument, brought into [0, 2 pi) in Fine units
Reduce(x) == (((x * Fine) % (2 * PiFine)) + 2 * PiFine) % (2 * PiFine)

SinReduced(t) ==
    IF 2 * t <= PiFine THEN SinFine(t)
    ELSE IF t <= PiFine THEN SinFine(PiFine - t)
    ELSE IF 2 * t <= 3 * PiFine THEN -SinFine(t - PiFine)
    ELSE -SinFine(2 * PiFine - t)

CosReduced(t) ==
    IF 2 * t <= PiFine THEN CosFine(t)
    ELSE IF t <= PiFine THEN -CosFine(PiFine - t)
    ELSE IF 2 * t <= 3 * PiFine THEN -CosFine(t - PiFine)
    ELSE CosFine(2 * PiFine - t)

\* math.Sin
Sin(x) == IF ~IsFinite(x) THEN NaN ELSE RoundDiv(SinReduced(Reduce(x)), Fine)

\* math.Cos
Cos(x) == IF ~IsFinite(x) THEN NaN ELSE RoundDiv(CosReduced(Reduce(x)), Fine)

RECURSIVE LeastSinAtLeast(_, _, _)
\* the least a in lo..hi with Sin(a) >= s (Sin increases on 0..pi/2)
LeastSinAtLeast(s, lo, hi) ==
    IF lo >= hi THEN lo
    ELSE LET mid == (lo + hi) \div 2
         IN  IF Sin(mid) >= s THEN LeastSinAtLeast(s, lo, mid)
                              ELSE LeastSinAtLeast(s, mid + 1, hi)

RECURSIVE LeastCosAtMost(_, _, _)
\* the least a in lo..hi with Cos(a) <= r (Cos decreases on 0..pi)
LeastCosAtMost(r, lo, hi) ==
    IF lo >= hi THEN lo
    ELSE LET mid == (lo + hi) \div 2
         IN  IF Cos(mid) <= r THEN LeastCosAtMost(r, lo, mid)
                              ELSE LeastCosAtMost(r, mid + 1, hi)

\* the angle in 0..pi/2 whose cosine is r, 0 <= r <= 1: through the sine
\* where the cosine is flat (near 0), through the cosine elsewhere
AcosUnit(r) ==
    IF 10 * r > 7 * Scale
    THEN LET s == FSqrt(Scale - FMul(r, r))
             a == LeastSinAtLeast(s, 0, Pi \div 2)
         IN  IF a > 0 /\ s - Sin(a - 1) < Sin(a) - s THEN a - 1 ELSE a
    ELSE LET a == LeastCosAtMost(r, 0, RoundDiv(Pi, 2))
         IN  IF a > 0 /\ Cos(a - 1) - r < r - Cos(a) THEN a - 1 ELSE a

\* math.Acos: NaN outside [-1, 1]
Acos(r) ==
    IF IsNaN(r) \/ r > Scale \/ r < -Scale THEN NaN
    ELSE IF r >= 0 THEN AcosUnit(r)
    ELSE Pi - AcosUnit(-r)

(***************************************************************************)
(* type Vector struct { X, Y, Z float64 } and the package's functions.     *)
(* A function and the method of the same name are both modelled: the       *)
(* method Vector.F is Vector_F.  A method with a pointer receiver is the   *)
(* function from the receiver before the call to the receiver after it,    *)
(* its assignments applied in the order the source makes them.             *)
(***************************************************************************)
Vector(x, y, z) == [X |-> x, Y |-> y, Z |-> z]

\* values[i-1] of a variadic argument list (Go counts from 0)
Arg(values, i) == values[i]

\* NewVector with the second test off by one: l > 2 where it is l > 1
NewVector_OffByOne(values) ==
    LET l == Len(values)
        x == IF l > 0 THEN Arg(values, 1) ELSE 0
        y == IF l > 2 THEN Arg(values, 2) ELSE 0
        z == IF l > 2 THEN Arg(values, 3) ELSE 0
    IN  Vector(x, y, z)

NewVector(values) ==
    LET l == Len(values)
        x == IF l > 0 THEN Arg(values, 1) ELSE 0
        y == IF l > 1 THEN Arg(values, 2) ELSE 0
        z == IF l > 2 THEN Arg(values, 3) ELSE 0
    IN  Vector(x, y, z)

\* (v *Vector) Set of src/vector.go
Vector_Set(v, values) ==
    LET l  == Len(values)
        v0 == IF l = 0 THEN Vector(0, 0, 0) ELSE v
        v1 == IF l > 0 THEN [v0 EXCEPT !.X = Arg(values, 1)] ELSE v0
        v2 == IF l > 1 THEN [v1 EXCEPT !.Y = Arg(values, 2)] ELSE v1
        v3 == IF l > 2 THEN [v2 EXCEPT !.Z = Arg(values, 3)] ELSE v2
    IN  v3

\* (v *Vector) Set of the earlier copy of the package
Vector_Set_part_000(v, values) ==
    LET l  == Len(values)
        v0 == IF l = 0 THEN Vector(0, 0, 0) ELSE v
        v1 == IF l > 0 THEN Vector(Arg(values, 1), 0, 0) ELSE v0
        v2 == IF l > 1 THEN [v1 EXCEPT !.Y = Arg(values, 2), !.Z = 0] ELSE v1
        v3 == IF l > 2 THEN [v2 EXCEPT !.Z = Arg(values, 3)] ELSE v2
    IN  v3

\* Copy with a component repeated: Vector{v.X, v.Y, v.Y}
Vector_Copy_Repeated(v) == Vector(v.X, v.Y, v.Y)

Vector_Copy(v) == Vector(v.X, v.Y, v.Z)

Add(v1, v2) == Vector(FAdd(v1.X, v2.X), FAdd(v1.Y, v2.Y), FAdd(v1.Z, v2.Z))

Vector_Add(v, other) ==
    LET a == [v EXCEPT !.X = FAdd(v.X, other.X)]
        b == [a EXCEPT !.Y = FAdd(a.Y, other.Y)]
    IN  [b EXCEPT !.Z = FAdd(b.Z, other.Z)]

Sub(v1, v2) == Vector(FSub(v1.X, v2.X), FSub(v1.Y, v2.Y), FSub(v1.Z, v2.Z))

Vector_Sub(v, other) ==
    LET a == [v EXCEPT !.X = FSub(v.X, other.X)]
        b == [a EXCEPT !.Y = FSub(a.Y, other.Y)]
    IN  [b EXCEPT !.Z = FSub(b.Z, other.Z)]

Mult(v, m) == Vector(FMul(v.X, m), FMul(v.Y, m), FMul(v.Z, m))

Vector_Mult(v, m) ==
    LET a == [v EXCEPT !.X = FMul(v.X, m)]
        b == [a EXCEPT !.Y = FMul(a.Y, m)]
    IN  [b EXCEPT !.Z = FMul(b.Z, m)]

Div(v, d) == Vector(FDiv(v.X, d), FDiv(v.Y, d), FDiv(v.Z, d))

Vector_Div(v, d) ==
    LET a == [v EXCEPT !.X = FDiv(v.X, d)]
        b == [a EXCEPT !.Y = FDiv(a.Y, d)]
    IN  [b EXCEPT !.Z = FDiv(b.Z, d)]

MagSq(v) == FAdd(FAdd(FMul(v.X, v.X), FMul(v.Y, v.Y)), FMul(v.Z, v.Z))

Mag(v) == FSqrt(MagSq(v))

Vector_MagSq(v) == FAdd(FAdd(FMul(v.X, v.X), FMul(v.Y, v.Y)), FMul(v.Z, v.Z))

Vector_Mag(v) == FSqrt(Vector_MagSq(v))

DotProduct(v1, v2) ==
    FAdd(FAdd(FMul(v1.X, v2.X), FMul(v1.Y, v2.Y)), FMul(v1.Z, v2.Z))

Vector_DotProduct(v, other) ==
    FAdd(FAdd(FMul(v.X, other.X), FMul(v.Y, other.Y)), FMul(v.Z, other.Z))

\* AngleBetween dividing by |v1| |v1|
AngleBetween_OneMag(v1, v2) ==
    LET v1m == Vector_Mag(v1)
        v2m == Vector_Mag(v2)
        dp  == Vector_DotProduct(v1, v2)
    IN  Acos(FDiv(dp, FMul(v1m, v1m)))

AngleBetween(v1, v2) ==
    LET v1m == Vector_Mag(v1)
        v2m == Vector_Mag(v2)
        dp  == Vector_DotProduct(v1, v2)
    IN  Acos(FDiv(dp, FMul(v1m, v2m)))

Vector_AngleBetween(v, other) ==
    LET v1m == Vector_Mag(v)
        v2m == Vector_Mag(other)
        dp  == Vector_DotProduct(v, other)
    IN  Acos(FDiv(dp, FMul(v1m, v2m)))

Dist(v1, v2) ==
    LET dx == FSub(v1.X, v2.X)
        dy == FSub(v1.Y, v2.Y)
        dz == FSub(v1.Z, v2.Z)
        sq == FAdd(FAdd(FMul(dx, dx), FMul(dy, dy)), FMul(dz, dz))
    IN  FSqrt(sq)

\* Dist with the last square forgotten: dx*dx + dy*dy + dz
Vector_Dist_Unsquared(v, other) ==
    LET dx == FSub(v.X, other.X)
        dy == FSub(v.Y, other.Y)
        dz == FSub(v.Z, other.Z)
        sq == FAdd(FAdd(FMul(dx, dx), FMul(dy, dy)), dz)
    IN  FSqrt(sq)

Vector_Dist(v, other) ==
    LET dx == FSub(v.X, other.X)
        dy == FSub(v.Y, other.Y)
        dz == FSub(v.Z, other.Z)
        sq == FAdd(FAdd(FMul(dx, dx), FMul(dy, dy)), FMul(dz, dz))
    IN  FSqrt(sq)

Normalise(v) == LET m == Vector_Mag(v) IN Div(v, m)

Vector_Normalise(v) == LET m == Vector_Mag(v) IN Vector_Div(v, m)

\* Limit with the comparison inverted: m >= l
Limit_Inverted(v, l) ==
    LET m == Vector_Mag(v)
    IN  IF FGe(m, l) THEN v
        ELSE LET n == Normalise(v) IN Mult(n, l)

Limit(v, l) ==
    LET m == Vector_Mag(v)
    IN  IF FLe(m, l) THEN v
        ELSE LET n == Normalise(v) IN Mult(n, l)

Vector_Limit(v, l) ==
    LET m == Vector_Mag(v)
    IN  IF FLe(m, l) THEN v
        ELSE Vector_Mult(Vector_Normalise(v), l)

SetMag(v, m) == LET n == Normalise(v) IN Mult(n, m)

Vector_SetMag(v, m) == Vector_Mult(Vector_Normalise(v), m)

Heading(v) ==
    LET base == NewVector(<<10 * Scale, 0>>)
    IN  AngleBetween(v, base)

Vector_Heading(v) ==
    LET base == NewVector(<<10 * Scale, 0>>)
    IN  Vector_AngleBetween(base, v)

Rotate(v, angle) ==
    LET c == Cos(FNeg(angle))
        s == Sin(FNeg(angle))
    IN  NewVector(<<FSub(FMul(c, v.X), FMul(s, v.Y)),
                    FAdd(FMul(s, v.X), FMul(c, v.Y))>>)

\* v.X is assigned first, and the assignment to v.Y reads it
Vector_Rotate(v, angle) ==
    LET c == Cos(FNeg(angle))
        s == Sin(FNeg(angle))
        a == [v EXCEPT !.X = FSub(FMul(c, v.X), FMul(s, v.Y))]
    IN  [a EXCEPT !.Y = FAdd(FMul(s, a.X), FMul(c, a.Y))]

quadrant(angle0) ==
    LET angle == FMod(angle0, FMul(2 * Scale, Pi))
    IN  IF FGe(angle, 0) /\ FLe(angle, FDiv(Pi, 2 * Scale)) THEN "se"
        ELSE IF FGe(angle, FDiv(Pi, 2 * Scale)) /\ FLe(angle, Pi) THEN "sw"
        ELSE IF FGe(angle, Pi)
                /\ FLt(angle, FDiv(FMul(3 * Scale, Pi), 2 * Scale)) THEN "nw"
        ELSE "ne"

\* FromAngle(angle) or FromAngle(angle, length): values is not empty
FromAngle(values) ==
    LET angle  == FMul(-Scale, Arg(values, 1))
        length == IF Len(values) = 2 THEN Arg(values, 2) ELSE Scale
        x  == Cos(angle)
        y  == Sin(angle)
        v0 == NewVector(<<x, y>>)
        v1 == Vector_Normalise(v0)
        v2 == IF FNe(length, Scale) THEN Vector_Mult(v1, length) ELSE v1
        q  == quadrant(angle)
    IN  IF q = "ne"
        THEN [v2 EXCEPT !.X = FAbs(v2.X), !.Y = FAbs(v2.Y)]
        ELSE IF q = "se"
        THEN [v2 EXCEPT !.X = FAbs(v2.X), !.Y = FMul(-Scale, FAbs(v2.Y))]
        ELSE IF q = "sw"
        THEN [v2 EXCEPT !.X = FMul(-Scale, FAbs(v2.X)),
                        !.Y = FMul(-Scale, FAbs(v2.Y))]
        ELSE [v2 EXCEPT !.X = FMul(-Scale, FAbs(v2.X)), !.Y = FAbs(v2.Y)]

(***************************************************************************)
(* The client program.  It holds two Vector variables, v and c, and calls  *)
(* the package on them; last records the latest call: the function or      *)
(* method (op), the variable a method was called on (recv), its vector     *)
(* operands as they were before the call (a, b), its float64 arguments     *)
(* (args) and what it returned (ret for a Vector, and for a method with a  *)
(* pointer receiver the receiver after the call; fret for a float64).      *)
(* copied, snap and touched record that c := v.Copy() has run, the value   *)
(* v had then, and which variables have been mutated since; left is the    *)
(* number of calls the client has still to make.                           *)
(***************************************************************************)
VARIABLES v, c, copied, snap, touched, left, last

vars == <<v, c, copied, snap, touched, left, last>>

\* the largest whole number a component drawn for a vector can have
MaxCoord == 2

\* the longest run of calls of the mutating client
MaxSteps == 3

Zero == Vector(0, 0, 0)

Coords == {k * Scale : k \in -MaxCoord..MaxCoord}

Vecs == {Vector(x, y, z) : x \in Coords, y \in Coords, z \in Coords}

\* second operands: the vectors of the package's tests and some others
Others == {Zero,
           Vector(Scale, 0, 0), Vector(3 * Scale, 0, 0),
           Vector(10 * Scale, 0, 0), Vector(0, 10 * Scale, 0),
           Vector(0, -10 * Scale, 0), Vector(3 * Scale, 4 * Scale, 0),
           Vector(Scale, Scale, Scale), Vector(-Scale, 2 * Scale, -2 * Scale),
           Vector(5 * Scale, -5 * Scale, 6 * Scale)}

\* the vectors the mutating client starts from
StartVecs == {Vector(Scale, 2 * Scale, 3 * Scale), Vector(3 * Scale, 4 * Scale, 0),
              Zero}

\* variadic argument lists of 0 to 4 values
ArgTuples == {<<5 * Scale, -7 * Scale, 2 * Scale, 9 * Scale>>,
              <<-Scale, 0, 6 * Scale, 0>>}

ArgLists == {SubSeq(t, 1, n) : t \in ArgTuples, n \in 0..4}

\* the argument lists of the mutating client
SetLists == {<<>>, <<5 * Scale>>, <<Scale, 2 * Scale>>,
             <<Scale, 2 * Scale, 3 * Scale>>}

\* k eighths of a full turn: the four axes, an angle inside each quadrant,
\* and negative angles
Angles == {RoundDiv(k * Pi, 4) : k \in -3..8}

Lengths == {Scale, 2 * Scale, 3 * Scale}

Scalars == {-Scale, 0, Scale \div 2, 2 * Scale}

NoCall == [op |-> "none", recv |-> "-", a |-> Zero, b |-> Zero,
           args |-> <<>>, ret |-> Zero, fret |-> 0]

Call(op, recv, a, b, args, ret, fret) ==
    [op |-> op, recv |-> recv, a |-> a, b |-> b, args |-> args,
     ret |-> ret, fret |-> fret]

Var(t) == IF t = "v" THEN v ELSE c

\* a method with a pointer receiver called on the variable t: only that
\* variable's storage is written
Mutate(t, op, b, args, new) ==
    /\ left > 0
    /\ left' = left - 1
    /\ v' = IF t = "v" THEN new ELSE v
    /\ c' = IF t = "c" THEN new ELSE c
    /\ touched' = touched \cup {t}
    /\ last' = Call(op, t, Var(t), b, args, new, 0)
    /\ UNCHANGED <<copied, snap>>

\* a function, or a method with a value receiver: no variable is written
Pure(op, recv, a, b, args, ret, fret) ==
    /\ left > 0
    /\ left' = left - 1
    /\ last' = Call(op, recv, a, b, args, ret, fret)
    /\ UNCHANGED <<v, c, copied, snap, touched>>

\* c := v.Copy()
CallCopy ==
    /\ left > 0
    /\ left' = left - 1
    /\ c' = Vector_Copy(v)
    /\ copied' = TRUE
    /\ snap' = v
    /\ touched' = {}
    /\ last' = Call("Vector.Copy", "v", v, Zero, <<>>, Vector_Copy(v), 0)
    /\ UNCHANGED v

CallSet(ts, lists) == \E t \in ts, values \in lists :
    Mutate(t, "Vector.Set", Zero, values, Vector_Set(Var(t), values))

CallSet_part_000(ts, lists) == \E t \in ts, values \in lists :
    Mutate(t, "Vector.Set.part_000", Zero, values,
           Vector_Set_part_000(Var(t), values))

CallAdd(ts, os) == \E t \in ts, o \in os :
    Mutate(t, "Vector.Add", o, <<>>, Vector_Add(Var(t), o))

CallSub(ts, os) == \E t \in ts, o \in os :
    Mutate(t, "Vector.Sub", o, <<>>, Vector_Sub(Var(t), o))

CallMult(ts, ms) == \E t \in ts, m \in ms :
    Mutate(t, "Vector.Mult", Zero, <<m>>, Vector_Mult(Var(t), m))

CallDiv(ts, ds) == \E t \in ts, d \in ds :
    Mutate(t, "Vector.Div", Zero, <<d>>, Vector_Div(Var(t), d))

CallNormalise(ts) == \E t \in ts :
    Mutate(t, "Vector.Normalise", Zero, <<>>, Vector_Normalise(Var(t)))

CallLimitMethod(ts, ls) == \E t \in ts, l \in ls :
    Mutate(t, "Vector.Limit", Zero, <<l>>, Vector_Limit(Var(t), l))

CallSetMag(ts, ms) == \E t \in ts, m \in ms :
    Mutate(t, "Vector.SetMag", Zero, <<m>>, Vector_SetMag(Var(t), m))

CallRotateMethod(ts, angles) == \E t \in ts, angle \in angles :
    Mutate(t, "Vector.Rotate", Zero, <<angle>>, Vector_Rotate(Var(t), angle))

CallNewVector == \E values \in ArgLists :
    Pure("NewVector", "-", Zero, Zero, values, NewVector(values), 0)

CallRotate == \E angle \in Angles :
    Pure("Rotate", "-", v, Zero, <<angle>>, Rotate(v, angle), 0)

CallFromAngle ==
    \E values \in {<<angle>> : angle \in Angles}
                  \cup {<<angle, l>> : angle \in Angles, l \in Lengths} :
        Pure("FromAngle", "-", Zero, Zero, values, FromAngle(values), 0)

CallHeading == Pure("Heading", "-", v, Zero, <<>>, Zero, Heading(v))

CallHeadingMethod ==
    Pure("Vector.Heading", "v", v, Zero, <<>>, Zero, Vector_Heading(v))

CallLimit == \E l \in Scalars :
    Pure("Limit", "-", v, Zero, <<l>>, Limit(v, l), 0)

\* the two vectors in either order
Pairs == {<<"v", v, c>>, <<"c", c, v>>}

CallAngleBetween == \E p \in Pairs :
    Pure("AngleBetween", "-", p[2], p[3], <<>>, Zero, AngleBetween(p[2], p[3]))

CallAngleBetweenMethod == \E p \in Pairs :
    Pure("Vector.AngleBetween", p[1], p[2], p[3], <<>>, Zero,
         Vector_AngleBetween(p[2], p[3]))

CallDist == \E p \in Pairs :
    Pure("Dist", "-", p[2], p[3], <<>>, Zero, Dist(p[2], p[3]))

CallDistMethod == \E p \in Pairs :
    Pure("Vector.Dist", p[1], p[2], p[3], <<>>, Zero, Vector_Dist(p[2], p[3]))

\* the client before its first call, with n calls to make
Start(vs, cs, n) ==
    /\ v \in vs
    /\ c \in cs
    /\ copied = FALSE
    /\ snap = Zero
    /\ touched = {}
    /\ left = n
    /\ last = NoCall

(***************************************************************************)
(* Spec: a client that mutates its two variables, MaxSteps calls long.     *)
(***************************************************************************)
Init == Start(StartVecs, {Zero}, MaxSteps)

Next ==
    \/ CallCopy
    \/ CallSet({"v", "c"}, SetLists)
    \/ CallAdd({"v", "c"}, {Vector(Scale, 0, -Scale)})
    \/ CallSub({"v", "c"}, {Vector(0, Scale, 0)})
    \/ CallMult({"v", "c"}, {2 * Scale})
    \/ CallDiv({"v", "c"}, {0, 2 * Scale})
    \/ CallNormalise({"v", "c"})
    \/ CallLimitMethod({"v", "c"}, {Scale})
    \/ CallSetMag({"v", "c"}, {2 * Scale})
    \/ CallRotateMethod({"v", "c"}, {RoundDiv(Pi, 2)})

Spec == Init /\ [][Next]_vars

(***************************************************************************)
(* SpecUnary: one call of a function of one vector, on any vector of Vecs. *)
(***************************************************************************)
InitUnary == Start(Vecs, {Zero}, 1)

NextUnary ==
    \/ CallNewVector
    \/ CallSet({"v"}, ArgLists)
    \/ CallSet_part_000({"v"}, ArgLists)
    \/ CallRotate
    \/ CallRotateMethod({"v"}, Angles)
    \/ CallFromAngle
    \/ CallHeading
    \/ CallHeadingMethod
    \/ CallLimit
    \/ CallLimitMethod({"v"}, Scalars)

SpecUnary == InitUnary /\ [][NextUnary]_vars

(***************************************************************************)
(* SpecBinary: one call of a function of two vectors, on any pair.         *)
(***************************************************************************)
InitBinary == Start(Vecs, Others, 1)

NextBinary ==
    \/ CallAngleBetween
    \/ CallAngleBetweenMethod
    \/ CallDist
    \/ CallDistMethod

SpecBinary == InitBinary /\ [][NextBinary]_vars

(***************************************************************************)
(* The properties.                                                         *)
(***************************************************************************)
\* the tolerance of the comparisons "within tolerance", in units of 1/Scale
Tol == 5

\* two float64 values within the tolerance of each other
Near(x, y) == IsFinite(x) /\ IsFinite(y) /\ AbsInt(x - y) <= Tol

\* the same float64 result: the same number, or NaN on both sides
Same(x, y) == x = y

\* C1: after a Set call the vector equals NewVector of that call's
\* arguments alone: the components the arguments do not cover are 0,
\* whatever the vector held before.
C1_SetIsNewVector ==
    last.op = "Vector.Set" => Var(last.recv) = NewVector(last.args)

\* Set of the earlier copy of the package (src/unnamed/part_000) does reset
\* the components its arguments do not cover.
Set_part_000_IsNewVector ==
    last.op = "Vector.Set.part_000" => Var(last.recv) = NewVector(last.args)

\* C2: NewVector with n = 0..3 arguments returns the arguments in the first
\* n components, in order, and 0 in the others; arguments after the third
\* are ignored.
C2_NewVectorDefaults ==
    last.op = "NewVector" =>
        LET n    == Len(last.args)
            want == [i \in 1..3 |-> IF i <= n THEN last.args[i] ELSE 0]
        IN  /\ last.ret.X = want[1]
            /\ last.ret.Y = want[2]
            /\ last.ret.Z = want[3]

\* NewVector has been called with four arguments and has returned the
\* first three
C2_Witness ==
    /\ last.op = "NewVector"
    /\ last.args = <<5 * Scale, -7 * Scale, 2 * Scale, 9 * Scale>>
    /\ last.ret = Vector(5 * Scale, -7 * Scale, 2 * Scale)

\* C3: rotation leaves Z alone: the vector Rotate(v, angle) returns has the
\* Z of v, and so has the receiver after v.Rotate(angle).
C3_RotateKeepsZ ==
    last.op \in {"Rotate", "Vector.Rotate"} => last.ret.Z = last.a.Z

\* C4: Mag(Rotate(v, angle)) is Mag(v) within the tolerance, for every
\* vector, those with Z # 0 included.
C4_RotateKeepsMag ==
    last.op = "Rotate" => Near(Mag(last.ret), Mag(last.a))

\* Rotate keeps the magnitude of the vectors that have Z = 0.
RotateKeepsMagInPlane ==
    (last.op = "Rotate" /\ last.a.Z = 0) => Near(Mag(last.ret), Mag(last.a))

\* C5: FromAngle(angle, L), and FromAngle(angle) with L = 1, is within the
\* tolerance of Rotate(NewVector(L, 0), angle) on each axis.
C5_FromAngleIsRotate ==
    last.op = "FromAngle" =>
        LET L == IF Len(last.args) = 2 THEN last.args[2] ELSE Scale
            r == Rotate(NewVector(<<L, 0>>), last.args[1])
        IN  /\ Near(last.ret.X, r.X)
            /\ Near(last.ret.Y, r.Y)
            /\ Near(last.ret.Z, r.Z)

\* C6: the heading of a vector with a non-zero (x, y) part is the heading of
\* its projection NewVector(v.X, v.Y), which is the angle between the
\* projection and (1, 0): it does not depend on v.Z.
C6_HeadingOfProjection ==
    (/\ last.op \in {"Heading", "Vector.Heading"}
     /\ (last.a.X # 0 \/ last.a.Y # 0)) =>
        LET p == NewVector(<<last.a.X, last.a.Y>>)
        IN  /\ Near(last.fret, Heading(p))
            /\ Near(last.fret, Vector_Heading(p))
            /\ Near(last.fret, AngleBetween(p, NewVector(<<Scale, 0>>)))

\* the heading of a vector with Z = 0 is the angle between it and (1, 0).
HeadingInPlane ==
    (/\ last.op \in {"Heading", "Vector.Heading"}
     /\ (last.a.X # 0 \/ last.a.Y # 0)
     /\ last.a.Z = 0) =>
        Near(last.fret, AngleBetween(last.a, NewVector(<<Scale, 0>>)))

\* the three parts of C7 that do not speak of the result's magnitude:
\* v unchanged when Mag(v) <= l, Normalise(v) scaled by l otherwise, and
\* the method leaving the receiver as the function's result
LimitAsDocumented ==
    LET l == last.args[1]
    IN  /\ FLe(Mag(last.a), l) => last.ret = last.a
        /\ ~FLe(Mag(last.a), l) => last.ret = Mult(Normalise(last.a), l)
        /\ last.ret = Limit(last.a, l)

\* C7 as stated: ..., and for every v and every l the magnitude of the
\* result does not exceed l (rounding apart).
C7_LimitBoundsEveryLimit ==
    last.op \in {"Limit", "Vector.Limit"} =>
        /\ LimitAsDocumented
        /\ ~FGt(Mag(last.ret), FAdd(last.args[1], Tol))

\* C7, amended: ..., and for every v and every l >= 0 the magnitude of the
\* result does not exceed l (rounding apart).
C7_LimitBounds ==
    last.op \in {"Limit", "Vector.Limit"} =>
        /\ LimitAsDocumented
        /\ last.args[1] >= 0 => ~FGt(Mag(last.ret), FAdd(last.args[1], Tol))

\* a vector longer than a limit l > 0 has been limited
C7_Witness ==
    /\ last.op = "Vector.Limit"
    /\ last.args[1] > 0
    /\ FGt(Mag(last.a), last.args[1])
    /\ last.ret # last.a
    /\ v = last.ret

\* C8: c := v.Copy() has the components of v; whatever is then done to c
\* leaves v as it was when the copy was taken, and whatever is done to v
\* leaves c so.
C8_CopyIndependent ==
    /\ last.op = "Vector.Copy" => (c = v /\ last.ret = last.a)
    /\ copied => /\ "v" \notin touched => v = snap
                 /\ "c" \notin touched => c = snap

\* the copy has been mutated into something else, and v has not
C8_Witness ==
    /\ copied
    /\ touched = {"c"}
    /\ c # snap
    /\ v = snap
    /\ v # Zero

C10_DistSymmetric ==
    last.op \in {"Dist", "Vector.Dist"} =>
        /\ Same(last.fret, Vector_Dist(last.b, last.a))
        /\ Same(last.fret, Dist(last.b, last.a))
        /\ Same(last.fret, Mag(Sub(last.a, last.b)))
        /\ (last.a = Zero /\ last.b = Vector(Scale, 0, 0)) => last.fret = Scale

\* the distance of two vectors that differ in Z alone has been taken
C10_Witness ==
    /\ last.op = "Vector.Dist"
    /\ last.a.X = last.b.X
    /\ last.a.Y = last.b.Y
    /\ last.a.Z # last.b.Z
    /\ last.fret > 0

\* C11: v.Rotate(angle) computes the new Y from the X the receiver had
\* before the call: afterwards the receiver's X and Y are those of the
\* vector Rotate(v, angle) returns for the value v had before the call
\* (rounding apart).
C11_RotateMethodIsRotate ==
    last.op = "Vector.Rotate" =>
        LET r == Rotate(last.a, last.args[1])
        IN  /\ Near(Var(last.recv).X, r.X)
            /\ Near(Var(last.recv).Y, r.Y)

\* the X that v.Rotate leaves is the X that Rotate returns.
RotateMethodXIsRotateX ==
    last.op = "Vector.Rotate" =>
        Var(last.recv).X = Rotate(last.a, last.args[1]).X

====
